---------------------------- MODULE Spec2Model ----------------------------
(***************************************************************************)
(* Model of the analytics helpers of etl_exercise (src/dags/helpers.py)    *)
(* and of the Airflow pipeline that calls them (src/dags/etl_exercise.py). *)
(*                                                                         *)
(* A DataFrame is a sequence of rows; a row is a record whose fields are   *)
(* the frame's columns.  Amounts are exact integers (cents), so the        *)
(* comparisons the code makes on floats are made here on integers scaled   *)
(* by a common positive factor.  A NaN is modelled by what the code does   *)
(* with it: every comparison with a NaN is False.                          *)
(***************************************************************************)
EXTENDS Integers, Sequences, FiniteSets, TLC

VARIABLES
    df,        \* the caller's DataFrame object (the argument is an alias of it)
    df0,       \* value of that DataFrame when the function was called
    op,        \* the helper that was called, "none" before any call
    arg,       \* the scalar argument of the call (threshold, top_n), 0 if none
    col,       \* the column argument of the call, "" if none
    ret,       \* the DataFrame the call returned
    outcome,   \* "none" before the call, "returned" after a normal return
    csv,          \* the rows of data/transactions.csv
    pc,           \* the task of the DAG run that runs next, or how the run ended
    try_number,   \* the try of that task, 1 for its first
    run,          \* the number of the DAG run
    xcom,         \* the value the last successful task returned
    raised,       \* the exception of the run's last failed try
    report_file,  \* reports/time_series as last written, "absent" before
    transactions, \* the rows of the 'transactions' table
    wrote,        \* the artifacts the current DAG run has written
    logged        \* the analyses the current DAG run has logged

callVars == <<df, df0, op, arg, col, ret, outcome>>
dagVars == <<csv, pc, try_number, run, xcom, raised, report_file, transactions,
             wrote, logged>>
vars == <<callVars, dagVars>>

(***************************** bounds *************************************)
MaxRows == 3         \* rows of an input table
MaxValue == 2        \* item_price / total_amount values are 0..MaxValue
MaxQuantity == 2     \* quantity values are 1..MaxQuantity
NumUsers == 3        \* user ids are 1..NumUsers
MaxTopN == 4         \* top_n ranges over -MinTopN..MaxTopN
MinTopN == 2
MaxThreshold == 2    \* thresholds tried besides the default
MaxCsvRows == 3      \* rows of data/transactions.csv
MaxRuns == 2         \* scheduled DAG runs

DefaultThreshold == 3
DefaultTopN == 3
Retries == 2

Users == 1..NumUsers
Values == 0..MaxValue
Quantities == 1..MaxQuantity
\* the category names in the order groupby sorts them
CategoryOrder == <<"a", "b", "c">>
Categories == {CategoryOrder[i] : i \in 1..Len(CategoryOrder)}
\* day numbers of 2021: Jan 5, Jan 20, Feb 10, Mar 11
Dates == {5, 20, 41, 70}
\* a transaction_date value: a date string as read from the CSV file, or a
\* datetime64 value; day is the day it denotes
DateStr(d) == [repr |-> "str", day |-> d]
Datetime(d) == [repr |-> "datetime64", day |-> d]
Thresholds == (-1..MaxThreshold) \cup {DefaultThreshold}

TablesOf(Rows) == UNION {[1..n -> Rows] : n \in 0..MaxRows}

NoException == [exc |-> "none", in |-> "none"]

\* no DAG run is under way
NoDag ==
    /\ csv = <<>> /\ pc = "idle" /\ try_number = 0 /\ run = 0 /\ xcom = <<>>
    /\ raised = NoException /\ report_file = "absent" /\ transactions = <<>>
    /\ wrote = {} /\ logged = <<>>

\* no helper is called on its own
NoCall ==
    /\ df = <<>> /\ df0 = <<>> /\ op = "none" /\ arg = 0 /\ col = ""
    /\ ret = <<>> /\ outcome = "none"

(*************************** generic helpers ******************************)
RECURSIVE SumSeq(_)
SumSeq(s) == IF s = <<>> THEN 0 ELSE Head(s) + SumSeq(Tail(s))

Column(t, c) == [i \in 1..Len(t) |-> t[i][c]]

\* the rows of t at the positions where keep is TRUE, in order (df[mask])
RECURSIVE Mask(_, _)
Mask(t, keep) ==
    IF t = <<>> THEN <<>>
    ELSE (IF Head(keep) THEN <<Head(t)>> ELSE <<>>) \o Mask(Tail(t), Tail(keep))

(************************ remove_outliers_zscore **************************)
\* Len(s)^2 times the population variance of s (scipy zscore: ddof = 0)
NVar(s) == Len(s) * SumSeq([i \in 1..Len(s) |-> s[i] * s[i]]) - SumSeq(s) * SumSeq(s)

\* zscore(s)[i] is NaN: (x - mean) / std with std = 0 is 0/0
ZIsNaN(s) == NVar(s) = 0

\* abs(zscore(s)[i]) <= threshold, both sides multiplied by Len(s) * std
\* and squared; False for a NaN score
AbsZLeqStrict(s, i, threshold) ==
    /\ ~ZIsNaN(s)
    /\ threshold >= 0
    /\ (Len(s) * s[i] - SumSeq(s)) * (Len(s) * s[i] - SumSeq(s))
          < threshold * threshold * NVar(s)

AbsZLeq(s, i, threshold) ==
    /\ ~ZIsNaN(s)
    /\ threshold >= 0
    /\ (Len(s) * s[i] - SumSeq(s)) * (Len(s) * s[i] - SumSeq(s))
          <= threshold * threshold * NVar(s)

remove_outliers_zscore(t, column, threshold) ==
    Mask(t, [i \in 1..Len(t) |-> AbsZLeq(Column(t, column), i, threshold)])

RawRows ==
    [user_id : {1}, item_category : {"a"}, item_price : Values,
     quantity : Quantities, transaction_date : {Datetime(5)}]

InitOutlier ==
    /\ df \in TablesOf(RawRows)
    /\ df0 = df
    /\ op = "none" /\ arg = 0 /\ col = "" /\ ret = <<>> /\ outcome = "none"
    /\ NoDag

Call_remove_outliers_zscore ==
    /\ op = "none"
    /\ \E column \in {"item_price", "quantity"}, threshold \in Thresholds :
          /\ op' = "remove_outliers_zscore"
          /\ col' = column
          /\ arg' = threshold
          /\ ret' = remove_outliers_zscore(df, column, threshold)
    /\ outcome' = "returned"
    /\ UNCHANGED <<df, df0, dagVars>>

NextOutlier == Call_remove_outliers_zscore

SpecOutlier == InitOutlier /\ [][NextOutlier]_vars

(*************************** enriched tables ******************************)
\* a row of the table transform_data hands to the analyses:
\* total_amount = item_price * quantity
Enriched(r) ==
    [c \in DOMAIN r \cup {"total_amount"} |->
        IF c = "total_amount" THEN r.item_price * r.quantity ELSE r[c]]

Min2(a, b) == IF a <= b THEN a ELSE b
Max2(a, b) == IF a >= b THEN a ELSE b

\* the integers of S in ascending order
RECURSIVE SortedSeq(_)
SortedSeq(S) ==
    IF S = {} THEN <<>>
    ELSE LET m == CHOOSE x \in S : \A y \in S : x <= y
         IN  <<m>> \o SortedSeq(S \ {m})

\* the sum of column c over the rows of t that satisfy field k = v
GroupSum(t, k, v, c) ==
    SumSeq([i \in 1..Len(t) |-> IF t[i][k] = v THEN t[i][c] ELSE 0])

KeysOf(t, k) == {t[i][k] : i \in 1..Len(t)}

\* DataFrame.head(n): the first n rows, or all but the last -n rows
DfHead(s, n) ==
    IF n >= 0 THEN SubSeq(s, 1, Min2(n, Len(s)))
    ELSE SubSeq(s, 1, Max2(0, Len(s) + n))

(***************************** top_categories *****************************)
\* data.groupby('item_category')['total_amount'].sum().reset_index()
category_sales(t) ==
    LET present == SelectSeq(CategoryOrder, LAMBDA c : c \in KeysOf(t, "item_category"))
    IN  [i \in 1..Len(present) |->
            [item_category |-> present[i],
             total_amount |-> GroupSum(t, "item_category", present[i], "total_amount")]]

IsDescending(s) == \A i \in 1..(Len(s) - 1) : s[i].total_amount >= s[i + 1].total_amount

IndexPermutations(n) == {p \in [1..n -> 1..n] : \A i, j \in 1..n : p[i] = p[j] => i = j}

\* sort_values(by='total_amount', ascending=False): the sort is not stable,
\* so every descending arrangement of the rows is a possible result
AnyOrder(s) == {[i \in 1..Len(s) |-> s[p[i]]] : p \in IndexPermutations(Len(s))}

sort_values_desc(s) == {x \in AnyOrder(s) : IsDescending(x)}

\* the set of tables the call can return
top_categories(t, top_n) == {DfHead(s, top_n) : s \in sort_values_desc(category_sales(t))}

TopNs == (0 - MinTopN)..MaxTopN

RankRows ==
    {Enriched(r) : r \in [user_id : {1}, item_category : Categories,
                          item_price : Values, quantity : {1},
                          transaction_date : {Datetime(5)}]}

InitRank ==
    /\ df \in TablesOf(RankRows)
    /\ df0 = df
    /\ op = "none" /\ arg = 0 /\ col = "" /\ ret = <<>> /\ outcome = "none"
    /\ NoDag

Call_top_categories ==
    /\ op = "none"
    /\ \E top_n \in TopNs :
          /\ arg' = top_n
          /\ ret' \in top_categories(df, top_n)
    /\ op' = "top_categories"
    /\ outcome' = "returned"
    /\ UNCHANGED <<df, df0, col, dagVars>>

NextRank == Call_top_categories

SpecRank == InitRank /\ [][NextRank]_vars

(************************* customer_segmentation **************************)
\* data.groupby('user_id')['total_amount'].sum().reset_index(), one row for
\* every user of Users whether or not the table has rows of that user
user_spending_all_users(t) ==
    LET ids == SortedSeq(Users)
    IN  [i \in 1..Len(ids) |->
            [user_id |-> ids[i],
             total_amount |-> GroupSum(t, "user_id", ids[i], "total_amount")]]

\* data.groupby('user_id')['total_amount'].sum().reset_index()
user_spending(t) ==
    LET ids == SortedSeq(KeysOf(t, "user_id"))
    IN  [i \in 1..Len(ids) |->
            [user_id |-> ids[i],
             total_amount |-> GroupSum(t, "user_id", ids[i], "total_amount")]]

RECURSIVE Insert(_, _)
Insert(x, s) ==
    IF s = <<>> THEN <<x>>
    ELSE IF x <= Head(s) THEN <<x>> \o s
    ELSE <<Head(s)>> \o Insert(x, Tail(s))

RECURSIVE SortValues(_)
SortValues(s) == IF s = <<>> THEN <<>> ELSE Insert(Head(s), SortValues(Tail(s)))

\* a float: NaN, or the number v
NaN == [nan |-> TRUE, v |-> 0]
Num(v) == [nan |-> FALSE, v |-> v]

\* 100 * Series.quantile(q / 100): linear interpolation between the two
\* order statistics around position (q / 100) * (n - 1); NaN when empty
quantile(s, q) ==
    IF Len(s) = 0 THEN NaN
    ELSE LET a == SortValues(s)
             pos == q * (Len(s) - 1)
             j == pos \div 100
             g == pos % 100
         IN  IF g = 0 THEN Num(100 * a[j + 1])
             ELSE Num(100 * a[j + 1] + g * (a[j + 2] - a[j + 1]))

\* x <= p and x > p for an amount x and 100 * threshold p; False for a NaN
LeqT(x, p) == ~p.nan /\ 100 * x <= p.v
LtT(x, p) == ~p.nan /\ 100 * x < p.v
GtT(x, p) == ~p.nan /\ 100 * x > p.v

\* np.select(conditions, choices, default='low_spenders') for one user, with
\* the upper edge of the medium band excluded
segment_medium_strict(x, low_threshold, high_threshold) ==
    IF LeqT(x, low_threshold) THEN "low_spenders"
    ELSE IF GtT(x, low_threshold) /\ LtT(x, high_threshold) THEN "medium_spenders"
    ELSE IF GtT(x, high_threshold) THEN "high_spenders"
    ELSE "low_spenders"

\* np.select(conditions, choices, default='low_spenders') for one user
segment(x, low_threshold, high_threshold) ==
    IF LeqT(x, low_threshold) THEN "low_spenders"
    ELSE IF GtT(x, low_threshold) /\ LeqT(x, high_threshold) THEN "medium_spenders"
    ELSE IF GtT(x, high_threshold) THEN "high_spenders"
    ELSE "low_spenders"

customer_segmentation(t) ==
    LET us == user_spending(t)
        low_threshold == quantile(Column(us, "total_amount"), 33)
        high_threshold == quantile(Column(us, "total_amount"), 66)
    IN  [i \in 1..Len(us) |->
            [user_id |-> us[i].user_id,
             total_amount |-> us[i].total_amount,
             segment |-> segment(us[i].total_amount, low_threshold, high_threshold)]]

SegRows ==
    {Enriched(r) : r \in [user_id : Users, item_category : {"a"},
                          item_price : Values, quantity : {1},
                          transaction_date : {Datetime(5)}]}

InitSeg ==
    /\ df \in TablesOf(SegRows)
    /\ df0 = df
    /\ op = "none" /\ arg = 0 /\ col = "" /\ ret = <<>> /\ outcome = "none"
    /\ NoDag

Call_customer_segmentation ==
    /\ op = "none"
    /\ op' = "customer_segmentation"
    /\ ret' = customer_segmentation(df)
    /\ outcome' = "returned"
    /\ UNCHANGED <<df, df0, arg, col, dagVars>>

NextSeg == Call_customer_segmentation

SpecSeg == InitSeg /\ [][NextSeg]_vars

(*********************** cohort_retention_analysis ************************)
pd_to_datetime(x) == Datetime(x.day)

\* the month of 2021 that day number d falls in
Month(d) == IF d <= 31 THEN 1 ELSE IF d <= 59 THEN 2 ELSE 3

\* .dt.to_period('D') whatever the time_period asked for
to_period_day(x, time_period) == x.day

\* .dt.to_period(time_period) of a datetime, as the ordinal of the period
to_period(x, time_period) == IF time_period = "D" THEN x.day ELSE Month(x.day)

\* groupby('user_id')['transaction_date'].transform('max') for user u
last_transaction(t, u) ==
    LET days == {t[i].transaction_date.day : i \in {k \in 1..Len(t) : t[k].user_id = u}}
    IN  Datetime(CHOOSE d \in days : \A e \in days : d >= e)

\* groupby('user_id')['transaction_date'].transform('min') for user u
first_transaction(t, u) ==
    LET days == {t[i].transaction_date.day : i \in {k \in 1..Len(t) : t[k].user_id = u}}
    IN  Datetime(CHOOSE d \in days : \A e \in days : d <= e)

\* the table after lines 152-158: transaction_date converted, the columns
\* cohort and period added
with_cohort_period(t, time_period) ==
    [i \in 1..Len(t) |->
        LET date == pd_to_datetime(t[i].transaction_date)
            cohort == to_period(first_transaction(t, t[i].user_id), time_period)
        IN  [c \in DOMAIN t[i] \cup {"cohort", "period"} |->
                IF c = "transaction_date" THEN date
                ELSE IF c = "cohort" THEN cohort
                ELSE IF c = "period" THEN to_period(date, time_period) - cohort
                ELSE t[i][c]]]

\* groupby(['cohort', 'period', 'user_id']).size().reset_index(name='purchase_count')
cohort_data(t) ==
    {[cohort |-> t[i].cohort, period |-> t[i].period, user_id |-> t[i].user_id,
      purchase_count |->
          Cardinality({k \in 1..Len(t) : /\ t[k].cohort = t[i].cohort
                                         /\ t[k].period = t[i].period
                                         /\ t[k].user_id = t[i].user_id})]
        : i \in 1..Len(t)}

\* cohort_data.groupby('cohort')['user_id'].count()
cohort_size_count(cd, c) == Cardinality({y \in cd : y.cohort = c})

\* cohort_data.groupby('cohort')['user_id'].nunique()
cohort_size(cd, c) == Cardinality({x.user_id : x \in {y \in cd : y.cohort = c}})

\* cohort_data.groupby(['cohort', 'period'])['user_id'].nunique()
retained_users(cd, c, p) ==
    Cardinality({x.user_id : x \in {y \in cd : y.cohort = c /\ y.period = p}})

RECURSIVE Concat(_)
Concat(ss) == IF ss = <<>> THEN <<>> ELSE Head(ss) \o Concat(Tail(ss))

\* pd.merge(retained_users, cohort_size, on='cohort') with retention_rate;
\* the rate retained_users / cohort_size * 100 is kept as a fraction
retention(cd) ==
    LET cohorts == SortedSeq({x.cohort : x \in cd})
        periods(c) == SortedSeq({x.period : x \in {y \in cd : y.cohort = c}})
        rec(c, p) ==
            [cohort |-> c, period |-> p,
             retained_users |-> retained_users(cd, c, p),
             cohort_size |-> cohort_size(cd, c),
             retention_rate |-> [num |-> retained_users(cd, c, p) * 100,
                                 den |-> cohort_size(cd, c)]]
    IN  Concat([i \in 1..Len(cohorts) |->
                   [j \in 1..Len(periods(cohorts[i])) |->
                       rec(cohorts[i], periods(cohorts[i])[j])]])

cohort_retention_analysis(t, time_period) ==
    retention(cohort_data(with_cohort_period(t, time_period)))

TimePeriods == {"M", "D"}

CohortRows(repr) ==
    {Enriched(r) : r \in [user_id : Users, item_category : {"a"},
                          item_price : {1}, quantity : {1},
                          transaction_date : {[repr |-> repr, day |-> d] : d \in Dates}]}

InitCohort ==
    /\ \E repr \in {"str", "datetime64"} : df \in TablesOf(CohortRows(repr))
    /\ df0 = df
    /\ op = "none" /\ arg = 0 /\ col = "" /\ ret = <<>> /\ outcome = "none"
    /\ NoDag

Call_cohort_retention_analysis ==
    /\ op = "none"
    /\ \E time_period \in TimePeriods :
          /\ arg' = time_period
          /\ df' = with_cohort_period(df, time_period)
          /\ ret' = cohort_retention_analysis(df, time_period)
    /\ op' = "cohort_retention_analysis"
    /\ outcome' = "returned"
    /\ UNCHANGED <<df0, col, dagVars>>

NextCohort == Call_cohort_retention_analysis

SpecCohort == InitCohort /\ [][NextCohort]_vars

(******************************* the DAG **********************************)
AllColumns == {"user_id", "item_category", "item_price", "quantity", "transaction_date"}

\* the CSV file has every column, or lacks item_category
CsvColumnSets == {AllColumns, AllColumns \ {"item_category"}}

Restrict(r, cols) == [c \in cols |-> r[c]]

\* the rows a CSV file with columns cols can hold: a row with every cell
\* filled, or with its item_price cell empty
CsvRows(cols) ==
    LET full == [user_id : {1, 2}, item_category : {"a"}, item_price : {1, 2},
                 quantity : {1, 2}, transaction_date : {DateStr(5), DateStr(41)}]
    IN  {Restrict(r, cols) : r \in full}
          \cup {Restrict(r, cols \ {"item_price"}) : r \in full}

InitDag ==
    /\ \E cols \in CsvColumnSets :
          \E rows \in UNION {[1..n -> CsvRows(cols)] : n \in 0..MaxCsvRows} :
              csv = [columns |-> cols, rows |-> rows]
    /\ pc = "extract" /\ try_number = 1 /\ run = 1
    /\ xcom = [columns |-> {}, rows |-> <<>>]
    /\ raised = NoException /\ report_file = "absent" /\ transactions = <<>>
    /\ wrote = {} /\ logged = <<>>
    /\ NoCall

\* the try raised exc in function f: the task is tried again while tries
\* are left ("retries": 2), then the DAG run fails and no later task runs
TaskFails(exc, f) ==
    /\ raised' = [exc |-> exc, in |-> f]
    /\ IF try_number <= Retries
       THEN try_number' = try_number + 1 /\ pc' = pc
       ELSE try_number' = try_number /\ pc' = "failed"

TaskSucceeds(next) == pc' = next /\ try_number' = 1 /\ raised' = raised

extract ==
    /\ pc = "extract"
    /\ xcom' = csv
    /\ TaskSucceeds("cleansing_data")
    /\ UNCHANGED <<callVars, csv, run, report_file, transactions, wrote, logged>>

\* df.dropna(): the rows with no empty cell
dropna(t) == SelectSeq(t.rows, LAMBDA r : DOMAIN r = t.columns)

cleansing_data ==
    /\ pc = "cleansing_data"
    /\ LET rows == dropna(xcom)
           dated == [i \in 1..Len(rows) |->
                        [rows[i] EXCEPT !.transaction_date = pd_to_datetime(@)]]
           by_price == remove_outliers_zscore(dated, "item_price", DefaultThreshold)
           by_quantity == remove_outliers_zscore(by_price, "quantity", DefaultThreshold)
       IN  xcom' = [columns |-> xcom.columns, rows |-> by_quantity]
    /\ TaskSucceeds("transform_data")
    /\ UNCHANGED <<callVars, csv, run, report_file, transactions, wrote, logged>>

\* the column has a datetime dtype, so that .dt can be used: a frame built
\* from the dict of a frame without rows has object columns
HasDatetimeDtype(rows) ==
    /\ rows # <<>>
    /\ \A i \in 1..Len(rows) : rows[i].transaction_date.repr = "datetime64"

\* df.groupby(df['transaction_date'].dt.date).agg(total_sales=sum of total_amount)
time_series(rows) ==
    LET days == SortedSeq({rows[i].transaction_date.day : i \in 1..Len(rows)})
    IN  [j \in 1..Len(days) |->
            [transaction_date |-> days[j],
             total_sales |->
                 SumSeq([i \in 1..Len(rows) |->
                            IF rows[i].transaction_date.day = days[j]
                            THEN rows[i].total_amount ELSE 0])]]

transform_data ==
    /\ pc = "transform_data"
    /\ LET rows == [i \in 1..Len(xcom.rows) |-> Enriched(xcom.rows[i])]
       IN  IF ~HasDatetimeDtype(rows)
           THEN /\ TaskFails("AttributeError", "transform_data")
                /\ UNCHANGED <<xcom, report_file, wrote, logged>>
           ELSE \* generate_time_series_report(time_series, REPORTS_DIR)
                /\ report_file' = time_series(rows)
                /\ wrote' = wrote \cup {"report"}
                /\ IF "item_category" \notin xcom.columns
                   THEN /\ TaskFails("KeyError", "top_categories")
                        /\ UNCHANGED <<xcom, logged>>
                   ELSE /\ \E top \in top_categories(rows, DefaultTopN) :
                              logged' =
                                  [top_3_categories |-> top,
                                   user_segments |-> customer_segmentation(rows),
                                   cohort_retention |->
                                       cohort_retention_analysis(rows, "M")]
                        /\ xcom' = [columns |-> xcom.columns \cup {"total_amount"},
                                    rows |-> rows]
                        /\ TaskSucceeds("save_to_postgres")
    /\ UNCHANGED <<callVars, csv, run, transactions>>

\* df.to_sql('transactions', engine, if_exists='append', index=False)
save_to_postgres ==
    /\ pc = "save_to_postgres"
    /\ transactions' = transactions \o xcom.rows
    /\ wrote' = wrote \cup {"transactions"}
    /\ TaskSucceeds("success")
    /\ UNCHANGED <<callVars, csv, run, xcom, report_file, logged>>

\* schedule='@monthly', max_active_runs=1: the next run starts once this one
\* has ended
next_run ==
    /\ pc \in {"success", "failed"}
    /\ run < MaxRuns
    /\ run' = run + 1
    /\ pc' = "extract" /\ try_number' = 1
    /\ raised' = NoException /\ wrote' = {} /\ logged' = <<>>
    /\ xcom' = [columns |-> {}, rows |-> <<>>]
    /\ UNCHANGED <<callVars, csv, report_file, transactions>>

NextDag ==
    \/ extract
    \/ cleansing_data
    \/ transform_data
    \/ save_to_postgres
    \/ next_run

SpecDag == InitDag /\ [][NextDag]_vars

(******************************* claims ***********************************)
Called(f) == op = f /\ outcome # "none"

\* C1: for every table and column whose values are all identical (standard
\* deviation 0), remove_outliers_zscore returns exactly the input rows.
C1_ConstantColumnUnchanged ==
    (Called("remove_outliers_zscore") /\ arg > 0 /\ NVar(Column(df0, col)) = 0)
        => ret = df0

MeanRows(t, c) ==
    LET s == Column(t, c)
    IN  Mask(t, [i \in 1..Len(t) |-> NVar(s) # 0 /\ Len(s) * s[i] = SumSeq(s)])

NumCategories(t) == Cardinality(KeysOf(t, "item_category"))

\* C3: top_categories returns min(top_n, number of distinct categories) rows
\* sorted by descending summed total_amount; the result is empty for every
\* top_n <= 0 and holds all categories when top_n exceeds their number.
C3_TopNLength ==
    Called("top_categories") =>
        /\ IsDescending(ret)
        /\ \A i \in 1..Len(ret) :
              ret[i].total_amount =
                  GroupSum(df0, "item_category", ret[i].item_category, "total_amount")
        /\ arg <= 0 => ret = <<>>
        /\ arg > 0 => Len(ret) = Min2(arg, NumCategories(df0))

UsersOf(t) == KeysOf(t, "user_id")

UserTotal(t, u) == GroupSum(t, "user_id", u, "total_amount")

UserTotals(t) ==
    LET ids == SortedSeq(UsersOf(t))
    IN  [i \in 1..Len(ids) |-> UserTotal(t, ids[i])]

\* C4: customer_segmentation returns exactly one record per distinct user_id
\* with the user's summed total t, and its segment is low_spenders iff
\* t <= p33, medium_spenders iff p33 < t <= p66, high_spenders iff t > p66;
\* when all users have identical totals every user is low_spenders.
C4_OneSegmentPerUser ==
    Called("customer_segmentation") =>
        LET p33 == quantile(UserTotals(df0), 33)
            p66 == quantile(UserTotals(df0), 66)
        IN  /\ Len(ret) = Cardinality(UsersOf(df0))
            /\ \A u \in UsersOf(df0) :
                  Cardinality({i \in 1..Len(ret) : ret[i].user_id = u}) = 1
            /\ \A i \in 1..Len(ret) :
                  LET t == UserTotal(df0, ret[i].user_id)
                  IN  /\ ret[i].user_id \in UsersOf(df0)
                      /\ ret[i].total_amount = t
                      /\ ret[i].segment = "low_spenders" <=> 100 * t <= p33.v
                      /\ ret[i].segment = "medium_spenders" <=>
                             (p33.v < 100 * t /\ 100 * t <= p66.v)
                      /\ ret[i].segment = "high_spenders" <=> 100 * t > p66.v
            /\ (\A u, w \in UsersOf(df0) : UserTotal(df0, u) = UserTotal(df0, w)) =>
                  \A i \in 1..Len(ret) : ret[i].segment = "low_spenders"

C4_Witness ==
    /\ Called("customer_segmentation")
    /\ {ret[i].segment : i \in 1..Len(ret)} =
          {"low_spenders", "medium_spenders", "high_spenders"}

Bucket(d, time_period) == IF time_period = "D" THEN d ELSE Month(d)

\* the days on which user u transacted in table t
DaysOf(t, u) == {t[i].transaction_date.day : i \in {k \in 1..Len(t) : t[k].user_id = u}}

\* the bucket of user u's earliest transaction
CohortOf(t, u, time_period) ==
    Bucket(CHOOSE d \in DaysOf(t, u) : \A e \in DaysOf(t, u) : d <= e, time_period)

CohortMembers(t, c, time_period) == {u \in UsersOf(t) : CohortOf(t, u, time_period) = c}

\* C2: every cohort in the output of cohort_retention_analysis has a period-0
\* record whose retained_users equals the cohort's cohort_size, the number of
\* distinct users whose earliest transaction falls in the cohort bucket, so
\* that its retention_rate is exactly 100.
C2_PeriodZeroIsWholeCohort ==
    Called("cohort_retention_analysis") =>
        \A i \in 1..Len(ret) :
            /\ ret[i].cohort_size = Cardinality(CohortMembers(df0, ret[i].cohort, arg))
            /\ \E j \in 1..Len(ret) :
                  /\ ret[j].cohort = ret[i].cohort
                  /\ ret[j].period = 0
                  /\ ret[j].retained_users = ret[j].cohort_size
                  /\ ret[j].retention_rate.num = 100 * ret[j].retention_rate.den

C2_Witness ==
    /\ Called("cohort_retention_analysis")
    /\ \E i, j \in 1..Len(ret) :
          /\ ret[i].cohort = ret[j].cohort
          /\ ret[i].period = 0 /\ ret[i].cohort_size >= 2
          /\ ret[j].period > 0 /\ ret[j].retained_users < ret[j].cohort_size

OneTransactionEach(t) ==
    /\ t # <<>>
    /\ \A i, j \in 1..Len(t) : t[i].user_id = t[j].user_id => i = j

RECURSIVE SumSizes(_)
SumSizes(s) == IF s = <<>> THEN 0 ELSE Head(s).cohort_size + SumSizes(Tail(s))

\* C5 as stated: a table of N users with one transaction each, whatever the
\* dates, yields N cohorts, each of size 1 with a single period-0 record.
C5_NCohortsOfSizeOne ==
    (Called("cohort_retention_analysis") /\ OneTransactionEach(df0)) =>
        /\ Len(ret) = Len(df0)
        /\ Cardinality({ret[i].cohort : i \in 1..Len(ret)}) = Len(df0)
        /\ \A i \in 1..Len(ret) : ret[i].cohort_size = 1 /\ ret[i].period = 0

\* C5 amended: a table of N users with one transaction each yields one
\* cohort per distinct calendar bucket among the transaction dates, each with
\* a single record, of period 0, whose cohort_size and retained_users are the
\* number of users whose date falls in the bucket; the sizes sum to N.
C5_OneCohortPerBucket ==
    (Called("cohort_retention_analysis") /\ OneTransactionEach(df0)) =>
        LET buckets == {Bucket(df0[i].transaction_date.day, arg) : i \in 1..Len(df0)}
        IN  /\ Len(ret) = Cardinality(buckets)
            /\ {ret[i].cohort : i \in 1..Len(ret)} = buckets
            /\ \A i \in 1..Len(ret) :
                  /\ ret[i].period = 0
                  /\ ret[i].cohort_size =
                        Cardinality({k \in 1..Len(df0) :
                            Bucket(df0[k].transaction_date.day, arg) = ret[i].cohort})
                  /\ ret[i].retained_users = ret[i].cohort_size
            /\ SumSizes(ret) = Len(df0)

C5_Witness ==
    /\ Called("cohort_retention_analysis") /\ OneTransactionEach(df0)
    /\ Len(df0) >= 2 /\ Len(ret) < Len(df0)
    /\ \E i, j \in 1..Len(df0) :
          df0[i].transaction_date.day # df0[j].transaction_date.day

\* C8: in every record returned by cohort_retention_analysis,
\* 1 <= retained_users <= cohort_size and cohort_size > 0, so retention_rate
\* lies in [0,100]; only (cohort, period) pairs with at least one transacting
\* user appear and period is never negative.
C8_RetentionWithinBounds ==
    Called("cohort_retention_analysis") =>
        \A i \in 1..Len(ret) :
            /\ 1 <= ret[i].retained_users
            /\ ret[i].retained_users <= ret[i].cohort_size
            /\ ret[i].cohort_size > 0
            /\ ret[i].retention_rate.den > 0
            /\ 0 <= ret[i].retention_rate.num
            /\ ret[i].retention_rate.num <= 100 * ret[i].retention_rate.den
            /\ ret[i].period >= 0
            /\ \E k \in 1..Len(df0) :
                  /\ CohortOf(df0, df0[k].user_id, arg) = ret[i].cohort
                  /\ Bucket(df0[k].transaction_date.day, arg) - ret[i].cohort
                        = ret[i].period

C8_Witness ==
    /\ Called("cohort_retention_analysis")
    /\ \E i \in 1..Len(ret) :
          /\ ret[i].period >= 2
          /\ ret[i].retained_users < ret[i].cohort_size

\* C9: no helper mutates the table passed to it: after the call the caller's
\* table has the same rows, the same columns and the same values as before.
C9_InputNotMutated == outcome # "none" => df = df0

Analyses == {"top_categories", "customer_segmentation", "cohort_retention_analysis"}

\* C10: a DAG run in which one of the three analyses failed inside
\* transform_data has written no artifact: neither the time-series report
\* file nor a row of the 'transactions' table.
C10_NoArtifactWhenAnalysisFails == raised.in \in Analyses => wrote = {}

=============================================================================
